---- MODULE Spec2Model ----
(***************************************************************************)
(* Model of push-gateway.rust: src/src/main.rs (the collector and the      *)
(* scheduler loop of main) and the way tests/integration_test.rs drives    *)
(* the collector's operations one call at a time.                          *)
(*                                                                         *)
(* f64 values are modelled as integers.  A response body is a sequence of  *)
(* lines; a line is the sequence of the pieces that split('=') yields.     *)
(***************************************************************************)
EXTENDS Integers, Sequences, FiniteSets, TLC

\* ------------------------------------------------------------- bounds
\* Number of cycles of the scheduler loop that are explored.
MaxCycles == 2
\* Number of collect calls explored when the collector is driven call by call.
MaxCalls == 3
\* Largest number of lines of a response body.
MaxLines == 2

\* ---------------------------------------------------- program constants
\* REDPANDA_NODES has three entries.
NumNodes == 3
\* time::sleep(Duration::from_secs(15))
Interval == 15

REDPANDA_NODES == 1..NumNodes

\* The instruments MetricsCollector::new registers, in registration order.
Instruments ==
    << "broker_up", "message_throughput", "consumer_lag", "partition_count",
       "replica_count", "cpu_usage", "memory_usage" >>

InstrumentSet == { Instruments[i] : i \in 1..Len(Instruments) }

\* ------------------------------------------------------ response bodies
\* An Option<f64> is a sequence of length at most one: << >> is None,
\* << v >> is Some(v).

\* The field tokens a piece of a line contains as a substring
\* (str::contains).
TokensIn(piece) ==
    CASE piece = "message_throughput" -> {"message_throughput"}
      [] piece = "cpu_usage"          -> {"cpu_usage"}
      [] piece = "vm_cpu_usage"       -> {"cpu_usage"}
      [] piece = "memory_usage"       -> {"memory_usage"}
      [] OTHER                        -> {}

\* value.trim().parse::<f64>().ok()
TrimParse(piece) ==
    CASE piece = "2"   -> << 2 >>
      [] piece = " 1 " -> << 1 >>
      [] piece = "-1"  -> << -1 >>
      [] OTHER         -> << >>

\* The lines response bodies are drawn from.
Lines ==
    { << "message_throughput", "2" >>,
      << "message_throughput", " 1 " >>,
      << "message_throughput", "-1" >>,
      << "message_throughput", "abc" >>,
      << "message_throughput" >>,
      << "uptime", "2" >>,
      << "cpu_usage", "2" >>,
      << "vm_cpu_usage", " 1 ", "2" >>,
      << "cpu_usage", "-1" >>,
      << "memory_usage", "2" >>,
      << "memory_usage", " 1 " >>,
      << "memory_usage", "abc" >>,
      << "uptime", "memory_usage" >> }

Bodies == UNION { [1..n -> Lines] : n \in 0..MaxLines }

\* line.contains(token)
Contains(line, token) == \E i \in 1..Len(line) : token \in TokensIn(line[i])

\* line.split('=').nth(1)
Nth1(line) == IF Len(line) < 2 THEN << >> ELSE << line[2] >>

\* A slip: the last line that contains the token is taken, not the first.
ExtractOpt_LastLine(body_, token) ==
    LET hits == { i \in 1..Len(body_) : Contains(body_[i], token) }
    IN  IF hits = {} THEN << >>
        ELSE LET line == body_[CHOOSE i \in hits : \A j \in hits : i >= j]
             IN  IF Nth1(line) = << >> THEN << >>
                 ELSE TrimParse(Nth1(line)[1])

\* body.lines().find(|line| line.contains(token))
\*     .and_then(|line| line.split('=').nth(1))
\*     .and_then(|value| value.trim().parse::<f64>().ok())
ExtractOpt(body, token) ==
    LET hits == { i \in 1..Len(body) : Contains(body[i], token) }
    IN  IF hits = {} THEN << >>
        ELSE LET line == body[CHOOSE i \in hits : \A j \in hits : i <= j]
             IN  IF Nth1(line) = << >> THEN << >>
                 ELSE TrimParse(Nth1(line)[1])

\* .unwrap_or(0.0)
UnwrapOr0(opt) == IF opt = << >> THEN 0 ELSE opt[1]

\* What client.get(&url).send().await and resp.text().await give: a
\* transport error, a non-2xx status, a 2xx response whose body cannot be
\* read, or a 2xx response with a body.
Failures == { [kind |-> "error"], [kind |-> "status"], [kind |-> "body_error"] }

\* The replies a broker scrape can meet, each 2xx body already taken through
\* the extraction of collect_redpanda_metrics.
BrokerReplies ==
    Failures \cup
    { [kind |-> "ok", throughput |-> ExtractOpt(b, "message_throughput")] :
        b \in Bodies }

\* The replies a host scrape can meet, each 2xx body already taken through
\* the two extractions of collect_vm_metrics.
VmReplies ==
    Failures \cup
    { [kind |-> "ok", cpu |-> ExtractOpt(b, "cpu_usage"),
                      memory |-> ExtractOpt(b, "memory_usage")] :
        b \in Bodies }

\* --------------------------------------------------------------- state
VARIABLES
    pc,                 \* where the process is: "start", "loop", "await",
                        \* "gather", "push", "sleep" in main; "api" when the
                        \* collector is driven call by call; "aborted" when
                        \* main returned the startup error; "panicked"
    build,              \* "debug" or "release": whether debug assertions are on
    registered,         \* the instruments the Registry holds
    node,               \* index into REDPANDA_NODES of the for loop
    cycle,              \* number of the current iteration of main's loop
    calls,              \* number of collect calls made call by call
    broker_up, message_throughput, consumer_lag, partition_count,
    replica_count, cpu_usage, memory_usage,     \* the instruments' values
    metric_families,    \* what registry.gather() returned, until it is moved
                        \* into push_metrics
    pushed,             \* the last push attempt: what was sent and its outcome
    pushes,             \* push attempts made in the current cycle
    slept,              \* the duration of the last time::sleep
    log,                \* the collect calls completed in the current cycle
    last,               \* the last collect call completed
    inflight,           \* the nodes whose request was sent and whose collect
                        \* call has not returned
    body, field,        \* a response body and the field token looked for
    value               \* << >>, or << v >> once v was extracted

instruments ==
    << broker_up, message_throughput, consumer_lag, partition_count,
       replica_count, cpu_usage, memory_usage >>

vars ==
    << pc, build, registered, node, cycle, calls, broker_up,
       message_throughput, consumer_lag, partition_count, replica_count,
       cpu_usage, memory_usage, metric_families, pushed, pushes, slept, log,
       last, inflight, body, field, value >>

\* The variables of one extraction.
extraction == << body, field, value >>

NoFamilies == [gathered |-> FALSE]
NoPush == [made |-> FALSE]
NoCall == [op |-> "none"]

\* The instruments' values as one record.
Values ==
    [ broker_up |-> broker_up, message_throughput |-> message_throughput,
      consumer_lag |-> consumer_lag, partition_count |-> partition_count,
      replica_count |-> replica_count, cpu_usage |-> cpu_usage,
      memory_usage |-> memory_usage ]

\* ------------------------------------------------------ MetricsCollector
\* A slip: the counter is set to the extracted value, not increased by it.
IncBy_Set(old, v) == v

\* Counter::inc_by(v): adds v to the counter.
IncBy(old, v) == old + v

\* Counter::inc_by carries debug_assert!(v >= 0.0): with debug assertions on,
\* a negative v panics; without them it is added.
IncByPanics(v) == build = "debug" /\ v < 0

\* A slip: a failed scrape resets the counter.
ThroughputAfter_ResetOnFailure(old, reply) ==
    IF reply.kind = "ok" THEN IncBy(old, UnwrapOr0(reply.throughput)) ELSE 0

\* message_throughput after collect_redpanda_metrics met `reply`.
ThroughputAfter(old, reply) ==
    IF reply.kind = "ok" THEN IncBy(old, UnwrapOr0(reply.throughput)) ELSE old

\* Whether collect_redpanda_metrics panics on `reply`.
RedpandaPanics(reply) ==
    reply.kind = "ok" /\ IncByPanics(UnwrapOr0(reply.throughput))

\* A slip: the gauge accumulates what is extracted.
CpuAfter_Accumulate(old, reply) ==
    IF reply.kind = "ok" THEN old + UnwrapOr0(reply.cpu) ELSE old

\* A slip: a field that is missing keeps the gauge's last value.
CpuAfter_KeepOnMissing(old, reply) ==
    IF reply.kind = "ok" /\ reply.cpu # << >> THEN reply.cpu[1] ELSE old

\* cpu_usage after collect_vm_metrics met `reply`.
CpuAfter(old, reply) ==
    IF reply.kind = "ok" THEN UnwrapOr0(reply.cpu) ELSE old

\* memory_usage after collect_vm_metrics met `reply`.
MemoryAfter(old, reply) ==
    IF reply.kind = "ok" THEN UnwrapOr0(reply.memory) ELSE old

\* What a collect call returns: resp.text().await? hands the body error to
\* the caller, every other path ends in Ok(()).
CollectResult(reply) == IF reply.kind = "body_error" THEN "Err" ELSE "Ok"

\* The record of a completed collect call.
CallRecord(op, n, reply) ==
    [ op |-> op, node |-> n, reply |-> reply, before |-> Values,
      result |-> CollectResult(reply) ]

\* ---------------------------------------------------------------- main
Init ==
    /\ pc = "start"
    /\ build \in {"debug", "release"}
    /\ registered = {}
    /\ node = 1
    /\ cycle = 1
    /\ calls = 0
    /\ broker_up = 0
    /\ message_throughput = 0
    /\ consumer_lag = 0
    /\ partition_count = 0
    /\ replica_count = 0
    /\ cpu_usage = 0
    /\ memory_usage = 0
    /\ metric_families = NoFamilies
    /\ pushed = NoPush
    /\ pushes = 0
    /\ slept = 0
    /\ log = << >>
    /\ last = NoCall
    /\ inflight = {}
    /\ body = << >>
    /\ field = "none"
    /\ value = << >>

\* A slip: one register call is missing from MetricsCollector::new.
New_Partial ==
    /\ pc = "start"
    /\ registered' = InstrumentSet \ {"memory_usage"}
    /\ pc' = "loop"
    /\ UNCHANGED << build, node, cycle, calls, instruments, metric_families,
                    pushed, pushes, slept, log, last, inflight, extraction >>

\* MetricsCollector::new(&registry)? succeeds: the seven instruments are
\* registered and main enters its loop.
New ==
    /\ pc = "start"
    /\ registered' = InstrumentSet
    /\ pc' = "loop"
    /\ UNCHANGED << build, node, cycle, calls, instruments, metric_families,
                    pushed, pushes, slept, log, last, inflight, extraction >>

\* A slip: the startup error is dropped and main enters its loop.
NewFails_Continue ==
    /\ pc = "start"
    /\ \E k \in 0..(Len(Instruments) - 1) :
           registered' = { Instruments[i] : i \in 1..k }
    /\ pc' = "loop"
    /\ UNCHANGED << build, node, cycle, calls, instruments, metric_families,
                    pushed, pushes, slept, log, last, inflight, extraction >>

\* MetricsCollector::new(&registry)? fails after k instruments were
\* registered: the ? operator makes main return the error.
NewFails ==
    /\ pc = "start"
    /\ \E k \in 0..(Len(Instruments) - 1) :
           registered' = { Instruments[i] : i \in 1..k }
    /\ pc' = "aborted"
    /\ UNCHANGED << build, node, cycle, calls, instruments, metric_families,
                    pushed, pushes, slept, log, last, inflight, extraction >>

\* A slip: the request is sent in a task of its own and the for loop goes
\* on to the next node without awaiting the call.
SendRequest_NoAwait ==
    /\ pc = "loop"
    /\ node \in REDPANDA_NODES
    /\ inflight' = inflight \cup {node}
    /\ node' = node + 1
    /\ pc' = IF node' \in REDPANDA_NODES THEN "loop" ELSE "gather"
    /\ UNCHANGED << build, registered, cycle, calls, instruments,
                    metric_families, pushed, pushes, slept, log, last,
                    extraction >>

\* client.get(&url).send().await for REDPANDA_NODES[node]: the request is
\* sent and the task waits for the reply.
SendRequest ==
    /\ pc = "loop"
    /\ node \in REDPANDA_NODES
    /\ pc' = "await"
    /\ inflight' = inflight \cup {node}
    /\ UNCHANGED << build, registered, node, cycle, calls, instruments,
                    metric_families, pushed, pushes, slept, log, last,
                    extraction >>

\* A slip: an Err of a collect call leaves the for loop.
NextNode_BreakOnErr(n, result) == IF result = "Err" THEN NumNodes + 1 ELSE n + 1

\* The for loop's next index after the call for node n returned `result`.
NextNode(n, result) == n + 1

\* A slip: the snapshot is taken before the last node was scraped.
AfterScrape_GatherEarly(n) == IF n < NumNodes THEN "loop" ELSE "gather"

\* Where main goes once the for loop's index is n.
AfterScrape(n) == IF n \in REDPANDA_NODES THEN "loop" ELSE "gather"

\* A slip: a 2xx reply marks the broker as up.
Respond_MarksBrokerUp(reply) ==
    /\ pc = "await"
    /\ IF RedpandaPanics(reply)
       THEN /\ pc' = "panicked"
            /\ UNCHANGED << node, message_throughput, log, last >>
       ELSE /\ message_throughput' = ThroughputAfter(message_throughput, reply)
            /\ node' = NextNode(node, CollectResult(reply))
            /\ pc' = AfterScrape(node')
            /\ log' = Append(log, CallRecord("collect_redpanda_metrics", node, reply))
            /\ last' = CallRecord("collect_redpanda_metrics", node, reply)
    /\ broker_up' = IF reply.kind = "ok" THEN 1 ELSE 0
    /\ inflight' = inflight \ {node}
    /\ UNCHANGED << build, registered, cycle, calls, consumer_lag,
                    partition_count, replica_count, cpu_usage, memory_usage,
                    metric_families, pushed, pushes, slept, extraction >>

\* The reply arrives and the rest of collect_redpanda_metrics runs; main
\* logs an Err and goes on with the for loop.
Respond(reply) ==
    /\ pc = "await"
    /\ IF RedpandaPanics(reply)
       THEN /\ pc' = "panicked"
            /\ UNCHANGED << node, message_throughput, log, last >>
       ELSE /\ message_throughput' = ThroughputAfter(message_throughput, reply)
            /\ node' = NextNode(node, CollectResult(reply))
            /\ pc' = AfterScrape(node')
            /\ log' = Append(log, CallRecord("collect_redpanda_metrics", node, reply))
            /\ last' = CallRecord("collect_redpanda_metrics", node, reply)
    /\ inflight' = inflight \ {node}
    /\ UNCHANGED << build, registered, cycle, calls, broker_up, consumer_lag,
                    partition_count, replica_count, cpu_usage, memory_usage,
                    metric_families, pushed, pushes, slept, extraction >>

\* registry.gather(): the values of the registered instruments.
Gathered ==
    [ gathered |-> TRUE, cycle |-> cycle, scrapes |-> Len(log),
      values |-> [ i \in registered |-> Values[i] ] ]

Gather ==
    /\ pc = "gather"
    /\ metric_families' = Gathered
    /\ pc' = "push"
    /\ UNCHANGED << build, registered, node, cycle, calls, instruments,
                    pushed, pushes, slept, log, last, inflight, extraction >>

\* A slip: a failed push is tried again at once.
AfterPush_Retry(result) == IF result = "Err" THEN "push" ELSE "sleep"

\* Where main goes after push_metrics returned `result`.
AfterPush(result) == "sleep"

\* prometheus::push_metrics(...): one attempt, its Err only printed.
Push ==
    /\ pc = "push"
    /\ \E result \in {"Ok", "Err"} :
           /\ pushed' = [ made |-> TRUE, families |-> metric_families,
                          result |-> result ]
           /\ pc' = AfterPush(result)
    /\ pushes' = pushes + 1
    /\ metric_families' = NoFamilies
    /\ UNCHANGED << build, registered, node, cycle, calls, instruments,
                    slept, log, last, inflight, extraction >>

\* A slip: a failed push doubles the wait.
SleepDuration_Backoff ==
    IF pushed.made /\ pushed.result = "Err" THEN 2 * Interval ELSE Interval

\* The duration main sleeps after a push.
SleepDuration == Interval

\* time::sleep(Duration::from_secs(15)).await, then the next iteration.
Sleep ==
    /\ pc = "sleep"
    /\ cycle < MaxCycles
    /\ slept' = SleepDuration
    /\ cycle' = cycle + 1
    /\ node' = 1
    /\ pc' = "loop"
    /\ pushes' = 0
    /\ log' = << >>
    /\ UNCHANGED << build, registered, calls, instruments, metric_families,
                    pushed, last, inflight, extraction >>

Next ==
    \/ New
    \/ NewFails
    \/ SendRequest
    \/ \E reply \in BrokerReplies : Respond(reply)
    \/ Gather
    \/ Push
    \/ Sleep

Spec == Init /\ [][Next]_vars

\* Fairness of main's own steps.  The task runs whenever it can; a reply is
\* the source's doing, and neither Client::new() nor the request sets a
\* timeout, so nothing in the program ends the wait of SendRequest.
FairSpec ==
    /\ Spec
    /\ WF_vars(New)
    /\ WF_vars(SendRequest)
    /\ WF_vars(Gather)
    /\ WF_vars(Push)
    /\ WF_vars(Sleep)

\* ------------------------------------------- the collector, call by call
\* tests/integration_test.rs builds a collector and calls its operations
\* directly; ApiSpec is every sequence of such calls.
ApiInit ==
    /\ pc = "api"
    /\ build \in {"debug", "release"}
    /\ registered = InstrumentSet
    /\ node = 1
    /\ cycle = 1
    /\ calls = 0
    /\ broker_up = 0
    /\ message_throughput = 0
    /\ consumer_lag = 0
    /\ partition_count = 0
    /\ replica_count = 0
    /\ cpu_usage = 0
    /\ memory_usage = 0
    /\ metric_families = NoFamilies
    /\ pushed = NoPush
    /\ pushes = 0
    /\ slept = 0
    /\ log = << >>
    /\ last = NoCall
    /\ inflight = {}
    /\ body = << >>
    /\ field = "none"
    /\ value = << >>

\* One whole call of collect_redpanda_metrics.
CollectRedpanda(reply) ==
    /\ pc = "api"
    /\ calls < MaxCalls
    /\ calls' = calls + 1
    /\ IF RedpandaPanics(reply)
       THEN /\ pc' = "panicked"
            /\ UNCHANGED << message_throughput, last >>
       ELSE /\ message_throughput' = ThroughputAfter(message_throughput, reply)
            /\ last' = CallRecord("collect_redpanda_metrics", node, reply)
            /\ pc' = pc
    /\ UNCHANGED << build, registered, node, cycle, broker_up, consumer_lag,
                    partition_count, replica_count, cpu_usage, memory_usage,
                    metric_families, pushed, pushes, slept, log, inflight,
                    extraction >>

\* One whole call of collect_vm_metrics.
CollectVm(reply) ==
    /\ pc = "api"
    /\ calls < MaxCalls
    /\ calls' = calls + 1
    /\ cpu_usage' = CpuAfter(cpu_usage, reply)
    /\ memory_usage' = MemoryAfter(memory_usage, reply)
    /\ last' = CallRecord("collect_vm_metrics", node, reply)
    /\ UNCHANGED << pc, build, registered, node, cycle, broker_up,
                    message_throughput, consumer_lag, partition_count,
                    replica_count, metric_families, pushed, pushes, slept,
                    log, inflight, extraction >>

ApiNext ==
    \/ \E reply \in BrokerReplies : CollectRedpanda(reply)
    \/ \E reply \in VmReplies : CollectVm(reply)

ApiSpec == ApiInit /\ [][ApiNext]_vars

\* ------------------------------------------------- one extraction alone
\* The field tokens the two collect operations look for.
Fields == {"message_throughput", "cpu_usage", "memory_usage"}

\* A 2xx body has been read and one field is about to be extracted from it.
ExtractInit ==
    /\ pc = "parse"
    /\ build \in {"debug", "release"}
    /\ registered = InstrumentSet
    /\ node = 1
    /\ cycle = 1
    /\ calls = 0
    /\ broker_up = 0
    /\ message_throughput = 0
    /\ consumer_lag = 0
    /\ partition_count = 0
    /\ replica_count = 0
    /\ cpu_usage = 0
    /\ memory_usage = 0
    /\ metric_families = NoFamilies
    /\ pushed = NoPush
    /\ pushes = 0
    /\ slept = 0
    /\ log = << >>
    /\ last = NoCall
    /\ inflight = {}
    /\ body \in Bodies
    /\ field \in Fields
    /\ value = << >>

\* The find / and_then / and_then / unwrap_or chain on `body` for `field`.
ExtractField ==
    /\ pc = "parse"
    /\ value' = << UnwrapOr0(ExtractOpt(body, field)) >>
    /\ pc' = "parsed"
    /\ UNCHANGED << build, registered, node, cycle, calls, instruments,
                    metric_families, pushed, pushes, slept, log, last,
                    inflight, body, field >>

ExtractNext == ExtractField

ExtractSpec == ExtractInit /\ [][ExtractNext]_vars

\* ---------------------------------------------------------- the claims
\* The value a completed broker scrape extracted (0 when there was none).
ExtractedOf(call) ==
    IF call.reply.kind = "ok" /\ call.reply.throughput # << >>
    THEN call.reply.throughput[1] ELSE 0

Failed(call) == call.reply.kind # "ok"

\* The instruments' values right after call i of the current cycle.
ValuesAfter(i) == IF i < Len(log) THEN log[i + 1].before ELSE Values

\* The sum of what calls from..Len(lg) of lg extracted.
RECURSIVE SumExtracted(_, _)
SumExtracted(lg, from) ==
    IF from > Len(lg) THEN 0
    ELSE ExtractedOf(lg[from]) + SumExtracted(lg, from + 1)

CycleOver == pc \in {"gather", "push", "sleep"}

\* C1 as stated: once the cycle's scrapes and push are done, the counter has
\* the value it had before each failed scrape of the cycle, whatever the
\* other sources did.
C1_UnchangedAfterCycle ==
    pc = "sleep" =>
        \A i \in 1..Len(log) :
            Failed(log[i]) =>
                message_throughput = log[i].before.message_throughput

\* C1 as amended: a failed scrape leaves every instrument with the value it
\* had before that scrape, and after the cycle the counter is that value
\* plus what the later scrapes of the cycle extracted.
C1_FailedScrapeChangesNothing ==
    /\ \A i \in 1..Len(log) :
           Failed(log[i]) =>
               /\ ValuesAfter(i) = log[i].before
               /\ CycleOver =>
                      message_throughput =
                          log[i].before.message_throughput
                              + SumExtracted(log, i + 1)
    /\ (last.op # "none" /\ Failed(last)) => Values = last.before

\* C1 witness: the cycle is over, a scrape failed when the counter was not
\* 0, and a later scrape of the same cycle succeeded.
C1_Witness ==
    /\ pc = "sleep"
    /\ \E i \in 1..Len(log) :
           /\ Failed(log[i])
           /\ log[i].before.message_throughput # 0
           /\ \E j \in (i + 1)..Len(log) : ExtractedOf(log[j]) # 0

\* C2: no step lowers message_throughput.
C2_CounterNeverDecreases ==
    [][message_throughput' >= message_throughput]_vars

\* C3: a cycle makes no push before its scrapes are done and exactly one by
\* the time it sleeps, whatever the scrapes met.
C3_OnePushPerCycle ==
    /\ pushes <= 1
    /\ pc \in {"loop", "await", "gather", "push"} => pushes = 0
    /\ pc = "sleep" => pushes = 1 /\ pushed.made

\* C3 witness: the second cycle is at its sleep and none of its scrapes
\* reached a source.
C3_Witness ==
    /\ pc = "sleep"
    /\ cycle = 2
    /\ pushes = 1
    /\ Len(log) = NumNodes
    /\ \A i \in 1..Len(log) : Failed(log[i])

\* C4: a snapshot exists only between the last scrape of a cycle and that
\* cycle's push, it is taken after all NumNodes scrapes of its cycle and it
\* carries the values those scrapes left.
C4_PushAfterAllScrapes ==
    /\ CycleOver => Len(log) = NumNodes
    /\ metric_families.gathered =>
           /\ pc = "push"
           /\ metric_families.cycle = cycle
           /\ metric_families.scrapes = NumNodes
           /\ metric_families.values.message_throughput = message_throughput
    /\ pc = "sleep" =>
           /\ pushed.families.cycle = cycle
           /\ pushed.families.scrapes = NumNodes
           /\ pushed.families.values.message_throughput = ValuesAfter(NumNodes).message_throughput

\* C4 witness: the second cycle pushed a snapshot holding what its last
\* scrape added.
C4_Witness ==
    /\ pc = "sleep"
    /\ cycle = 2
    /\ ExtractedOf(log[NumNodes]) = 2
    /\ pushed.families.values.message_throughput
           = log[NumNodes].before.message_throughput + 2

\* C5: a scrape that was sent eventually ends.
C5_ScrapeEnds == (pc = "await") ~> (pc # "await")

\* C6: the push step always leads to the sleep and the sleep to the next
\* cycle after one wait of Interval, whatever the push returned, and neither
\* changes an instrument.
C6_PushFailureChangesNothing ==
    [][ /\ pc = "push" =>
               /\ pc' = "sleep"
               /\ pushes' = pushes + 1
               /\ instruments' = instruments
        /\ pc = "sleep" =>
               /\ pc' = "loop"
               /\ node' = 1
               /\ cycle' = cycle + 1
               /\ slept' = Interval
               /\ instruments' = instruments ]_vars

\* C6 witness: the push of the first cycle failed and the second cycle has
\* begun after a wait of Interval.
C6_Witness ==
    /\ pc = "loop"
    /\ cycle = 2
    /\ node = 1
    /\ pushed.made
    /\ pushed.result = "Err"
    /\ slept = Interval

\* C7: the calls of a cycle are the nodes in order, each once; the loop is
\* at the node after the last call, whatever the calls returned.
C7_EachNodeOnce ==
    /\ Len(log) <= NumNodes
    /\ \A i \in 1..Len(log) : log[i].node = i
    /\ pc \in {"loop", "await"} => node = Len(log) + 1
    /\ CycleOver => { log[i].node : i \in 1..Len(log) } = REDPANDA_NODES

\* C7 witness: the first node's scrape returned Err, the second met a
\* transport error, and the third was still scraped.
C7_Witness ==
    /\ pc = "gather"
    /\ log[1].result = "Err"
    /\ log[2].reply.kind = "error"
    /\ log[3].reply.kind = "ok"
    /\ log[3].node = 3

\* C8: by the time a cycle takes its snapshot, it has called
\* collect_vm_metrics.
C8_CycleScrapesHosts ==
    pc = "gather" =>
        \E i \in 1..Len(log) : log[i].op = "collect_vm_metrics"

\* C9: each successful broker scrape adds what it extracted to the counter,
\* once; over a finished cycle the counter grew by the sum of what its
\* scrapes extracted.
C9_CounterIncrement ==
    /\ \A i \in 1..Len(log) :
           ~Failed(log[i]) =>
               ValuesAfter(i).message_throughput
                   = log[i].before.message_throughput + ExtractedOf(log[i])
    /\ (CycleOver /\ Len(log) > 0) =>
           message_throughput
               = log[1].before.message_throughput + SumExtracted(log, 1)

\* C9 witness: a scrape that extracted 2 when the counter was not 0, in a
\* finished cycle.
C9_Witness ==
    /\ pc = "sleep"
    /\ \E i \in 1..Len(log) :
           /\ ExtractedOf(log[i]) = 2
           /\ log[i].before.message_throughput > 0
           /\ ValuesAfter(i).message_throughput
                  = log[i].before.message_throughput + 2

\* C10: after a successful host scrape that extracted both fields, the
\* gauges hold the extracted values.
C10_GaugeSet ==
    (/\ last.op = "collect_vm_metrics"
     /\ last.reply.kind = "ok"
     /\ last.reply.cpu # << >>
     /\ last.reply.memory # << >>) =>
        /\ cpu_usage = last.reply.cpu[1]
        /\ memory_usage = last.reply.memory[1]

\* C10 witness: a host scrape extracted cpu 1 and memory 2 when the gauges
\* held 2 and 1.
C10_Witness ==
    /\ last.op = "collect_vm_metrics"
    /\ last.reply.kind = "ok"
    /\ last.reply.cpu = << 1 >>
    /\ last.reply.memory = << 2 >>
    /\ last.before.cpu_usage = 2
    /\ last.before.memory_usage = 1
    /\ cpu_usage = 1
    /\ memory_usage = 2

\* The number a piece spells once the blanks around it are dropped, as a
\* sequence of length at most one.
NumberSpelled(piece) ==
    IF piece \in {"2", " 2 "} THEN << 2 >>
    ELSE IF piece \in {"1", " 1 "} THEN << 1 >>
    ELSE IF piece \in {"-1", " -1 "} THEN << -1 >>
    ELSE << >>

\* The lines of `body` that contain `field`.
Holders == { i \in 1..Len(body) : Contains(body[i], field) }

\* C11: an extraction always ends with a number; it is 0 when no line
\* contains the token, and otherwise it is decided by the first line that
\* contains it alone: the number spelled after the first separator of that
\* line, or 0 when there is no separator or no number there.
C11_FieldExtraction ==
    pc = "parsed" =>
        /\ Len(value) = 1
        /\ value[1] \in Int
        /\ Holders = {} => value[1] = 0
        /\ \A i \in Holders :
               (\A j \in 1..(i - 1) : j \notin Holders) =>
                   IF Len(body[i]) >= 2 /\ NumberSpelled(body[i][2]) # << >>
                   THEN value[1] = NumberSpelled(body[i][2])[1]
                   ELSE value[1] = 0

\* C11 witness: the first line that contains the token is the second line
\* of the body and a number was extracted from it.
C11_Witness ==
    /\ pc = "parsed"
    /\ Len(body) = 2
    /\ 1 \notin Holders
    /\ 2 \in Holders
    /\ value = << 1 >>

\* C12: once main is in its loop, no scrape or push outcome stops it: the
\* process is never ended by an error of its own.
C12_LoopNeverStops == pc # "panicked"

\* C13: broker_up, message_throughput, cpu_usage and memory_usage are never
\* below 0, whatever the collect calls met.
C13_NonNegative ==
    /\ broker_up >= 0
    /\ message_throughput >= 0
    /\ cpu_usage >= 0
    /\ memory_usage >= 0

\* C14: from the first cycle on the registry holds exactly the seven
\* instruments, and so does every snapshot gathered or pushed.
C14_InstrumentSetFixed ==
    /\ pc \notin {"start", "aborted"} => registered = InstrumentSet
    /\ metric_families.gathered =>
           DOMAIN metric_families.values = InstrumentSet
    /\ pushed.made => DOMAIN pushed.families.values = InstrumentSet

\* C14 witness: the second cycle has gathered its snapshot after the first
\* one was pushed.
C14_Witness ==
    /\ pc = "push"
    /\ cycle = 2
    /\ pushed.made
    /\ metric_families.gathered
    /\ DOMAIN metric_families.values = DOMAIN pushed.families.values
    /\ registered = InstrumentSet

\* C15: with a registry that does not hold all seven instruments the
\* process is at its start or has aborted, and then no request was sent, no
\* collect call returned, no snapshot was gathered and no push was made.
C15_AbortOnStartupFailure ==
    registered # InstrumentSet =>
        /\ pc \in {"start", "aborted"}
        /\ inflight = {}
        /\ log = << >>
        /\ last = NoCall
        /\ ~metric_families.gathered
        /\ ~pushed.made
        /\ pushes = 0

\* C15 witness: startup failed after some instruments were registered.
C15_Witness ==
    /\ pc = "aborted"
    /\ registered # {}
    /\ registered # InstrumentSet

\* The registered instruments' values, as a snapshot holds them.
RegistryValues == [ i \in registered |-> Values[i] ]

\* C16: at most one collect call is under way, the one for the loop's node;
\* none is under way while a snapshot exists or main sleeps, and the
\* snapshot a cycle pushed holds the instruments' values as they are when
\* the push is over.
C16_WritesExclusive ==
    /\ Cardinality(inflight) <= 1
    /\ inflight # {} => pc = "await" /\ inflight = {node}
    /\ metric_families.gathered =>
           /\ inflight = {}
           /\ metric_families.values = RegistryValues
    /\ pc = "sleep" =>
           /\ inflight = {}
           /\ pushed.families.values = RegistryValues

\* C16 witness: the second cycle's push is over and its scrapes had changed
\* the counter.
C16_Witness ==
    /\ pc = "sleep"
    /\ cycle = 2
    /\ inflight = {}
    /\ \E i \in 1..Len(log) : ExtractedOf(log[i]) # 0
    /\ pushed.families.values.message_throughput = message_throughput

\* C17: a 2xx host reply with no value for a field sets that field's gauge to
\* 0; a failed host scrape leaves both gauges as they were; a 2xx broker
\* reply with no value leaves the counter as it was.
C17_MissingFieldOverwrites ==
    /\ (last.op = "collect_vm_metrics" /\ last.reply.kind = "ok") =>
           /\ last.reply.cpu = << >> => cpu_usage = 0
           /\ last.reply.memory = << >> => memory_usage = 0
    /\ (last.op = "collect_vm_metrics" /\ last.reply.kind # "ok") =>
           /\ cpu_usage = last.before.cpu_usage
           /\ memory_usage = last.before.memory_usage
    /\ (/\ last.op = "collect_redpanda_metrics"
        /\ last.reply.kind = "ok"
        /\ last.reply.throughput = << >>) =>
           message_throughput = last.before.message_throughput

\* C17 witness: a 2xx host reply without a cpu value met a cpu gauge of 2
\* and left it 0.
C17_Witness ==
    /\ last.op = "collect_vm_metrics"
    /\ last.reply.kind = "ok"
    /\ last.reply.cpu = << >>
    /\ last.before.cpu_usage = 2
    /\ cpu_usage = 0

\* The instruments no operation writes.
Unwritten == {"broker_up", "consumer_lag", "partition_count", "replica_count"}

\* C18: broker_up, consumer_lag, partition_count and replica_count are 0 in
\* every state and in every snapshot gathered or pushed.
C18_NeverWritten ==
    /\ \A i \in Unwritten : Values[i] = 0
    /\ metric_families.gathered =>
           \A i \in Unwritten : metric_families.values[i] = 0
    /\ pushed.made => \A i \in Unwritten : pushed.families.values[i] = 0

\* C18 witness: all three brokers answered 2xx and the pushed snapshot still
\* carries broker_up = 0.
C18_Witness ==
    /\ pc = "sleep"
    /\ Len(log) = NumNodes
    /\ \A i \in 1..Len(log) : ~Failed(log[i])
    /\ pushed.made
    /\ pushed.families.values["broker_up"] = 0

====
